---------------------------- MODULE Spec2Model ----------------------------
(***************************************************************************)
(* FakeDataGenerator of notebooks/revised_data_generator/generator.py:    *)
(* template placeholder parsing, duplicate-entity resolution, the in-place *)
(* render loop with its span bookkeeping, lower-casing and the entity      *)
(* consolidation, as driven by sample_examples.                            *)
(*                                                                         *)
(* A Python str is a sequence of one-character strings.  Offsets are       *)
(* 0-based and slices half-open, as in the source.                         *)
(***************************************************************************)
EXTENDS Integers, Sequences, FiniteSets, TLC

(***************************************************************************)
(* Python string primitives                                                *)
(***************************************************************************)
Min(a, b) == IF a < b THEN a ELSE b

Max(a, b) == IF a > b THEN a ELSE b

Range(s) == {s[k] : k \in 1..Len(s)}

\* index normalisation of a slice bound k for a string of length n
NormIndex(k, n) == IF k < 0 THEN Max(k + n, 0) ELSE Min(k, n)

\* s[a:b]
Slice(s, a, b) ==
    LET lo == NormIndex(a, Len(s))
        hi == NormIndex(b, Len(s))
    IN  IF lo >= hi THEN <<>> ELSE SubSeq(s, lo + 1, hi)

\* s[a:]
SliceFrom(s, a) == Slice(s, a, Len(s))

\* s[:b]
SliceTo(s, b) == Slice(s, 0, b)

\* True when pat occurs in s at offset p
OccursAt(s, pat, p) ==
    /\ p >= 0
    /\ p + Len(pat) <= Len(s)
    /\ \A k \in 1..Len(pat) : s[p + k] = pat[k]

\* offset of the first occurrence of pat in s at or after from, -1 when none
FindFrom(s, pat, from) ==
    LET hits == {p \in from..(Len(s) - Len(pat)) : OccursAt(s, pat, p)}
    IN  IF hits = {} THEN -1 ELSE CHOOSE p \in hits : \A q \in hits : p <= q

\* mutation of Search: the last occurrence instead of the first
SearchLast(pat, s) ==
    LET hits == {p \in 0..(Len(s) - Len(pat)) : OccursAt(s, pat, p)}
    IN  IF hits = {} THEN -1 ELSE CHOOSE p \in hits : \A q \in hits : p >= q

\* re.search(pat, s).start() for a literal pattern; -1 stands for None
Search(pat, s) == FindFrom(s, pat, 0)

\* s.replace(old, new, 1)
ReplaceFirst(s, old, new) ==
    LET p == FindFrom(s, old, 0)
    IN  IF p = -1 THEN s ELSE SliceTo(s, p) \o new \o SliceFrom(s, p + Len(old))

\* s.replace(old, new): every non-overlapping occurrence, left to right
RECURSIVE ReplaceAllFrom(_, _, _, _)
ReplaceAllFrom(s, old, new, from) ==
    LET p == FindFrom(s, old, from)
    IN  IF p = -1 THEN s
        ELSE ReplaceAllFrom(SliceTo(s, p) \o new \o SliceFrom(s, p + Len(old)),
                            old, new, p + Len(new))

ReplaceAll(s, old, new) == ReplaceAllFrom(s, old, new, 0)

UpperLetters == <<"A", "B", "C", "D", "E", "F", "G", "H", "I", "J", "K", "L", "M",
                  "N", "O", "P", "Q", "R", "S", "T", "U", "V", "W", "X", "Y", "Z">>

LowerLetters == <<"a", "b", "c", "d", "e", "f", "g", "h", "i", "j", "k", "l", "m",
                  "n", "o", "p", "q", "r", "s", "t", "u", "v", "w", "x", "y", "z">>

Digits == <<"0", "1", "2", "3", "4", "5", "6", "7", "8", "9">>

UpperSet == Range(UpperLetters)

LowerSet == Range(LowerLetters)

DigitSet == Range(Digits)

IsUpper(c) == c \in UpperSet

IsLowerChar(c) == c \in LowerSet

\* c.isdigit()
IsDigit(c) == c \in DigitSet

\* c.lower() of one character
LowerChar(c) ==
    IF IsUpper(c)
    THEN LowerLetters[CHOOSE k \in 1..Len(UpperLetters) : UpperLetters[k] = c]
    ELSE c

\* s.lower()
Lower(s) == [k \in 1..Len(s) |-> LowerChar(s[k])]

\* s.islower(): at least one cased character and no upper-case one
IsLowerStr(s) ==
    /\ \E k \in 1..Len(s) : IsLowerChar(s[k])
    /\ \A k \in 1..Len(s) : ~IsUpper(s[k])

IsSpace(c) == c = " "

\* s.strip()
Strip(s) ==
    LET keep == {k \in 1..Len(s) : ~IsSpace(s[k])}
    IN  IF keep = {} THEN <<>>
        ELSE SubSeq(s, CHOOSE a \in keep : \A b \in keep : a <= b,
                       CHOOSE a \in keep : \A b \in keep : a >= b)

\* str(n) of a natural number
RECURSIVE Str(_)
Str(n) == IF n < 10 THEN <<Digits[n + 1]>> ELSE Str(n \div 10) \o <<Digits[(n % 10) + 1]>>

\* "".join(c for c in entity if not c.isdigit())
RemoveDigits(entity) == SelectSeq(entity, LAMBDA c : ~IsDigit(c))

Braced(name) == <<"{">> \o name \o <<"}">>

Bracketed(name) == <<"[">> \o name \o <<"]">>

(***************************************************************************)
(* get_template_entities                                                   *)
(***************************************************************************)
\* the character class [A-Z_0-9]
IsNameChar(c) == IsUpper(c) \/ IsDigit(c) \/ c = "_"

\* length of the longest run of name characters of s starting at offset p
RECURSIVE NameRun(_, _)
NameRun(s, p) ==
    IF p < Len(s) /\ IsNameChar(s[p + 1]) THEN 1 + NameRun(s, p + 1) ELSE 0

\* re.finditer(r"\{([A-Z_0-9]+)\}", template) from offset p: the matches in
\* order, each as [ent, start, end]
RECURSIVE FindIter(_, _)
FindIter(template, p) ==
    IF p >= Len(template) THEN <<>>
    ELSE IF template[p + 1] = "{"
              /\ NameRun(template, p + 1) > 0
              /\ p + 1 + NameRun(template, p + 1) < Len(template)
              /\ template[p + 2 + NameRun(template, p + 1)] = "}"
         THEN LET n == NameRun(template, p + 1)
              IN  <<[ent |-> Slice(template, p + 1, p + 1 + n),
                     start |-> p, end |-> p + n + 2]>>
                  \o FindIter(template, p + n + 2)
         ELSE FindIter(template, p + 1)

\* entities_count[ent] += 1 on a Counter kept in insertion order
CounterAdd(counter, ent) ==
    IF \E k \in 1..Len(counter) : counter[k].ent = ent
    THEN [k \in 1..Len(counter) |->
            IF counter[k].ent = ent
            THEN [ent |-> ent, count |-> counter[k].count + 1]
            ELSE counter[k]]
    ELSE Append(counter, [ent |-> ent, count |-> 1])

CounterGet(counter, ent) ==
    LET hit == {k \in 1..Len(counter) : counter[k].ent = ent}
    IN  IF hit = {} THEN 0 ELSE counter[CHOOSE k \in hit : TRUE].count

\* the first loop: the identifier list and the Counter after the first n matches
RECURSIVE ScanMatches(_, _)
ScanMatches(matches, n) ==
    IF n = 0 THEN [templates |-> <<>>, entities_count |-> <<>>]
    ELSE LET prev == ScanMatches(matches, n - 1)
             ent == matches[n].ent
             counter == CounterAdd(prev.entities_count, ent)
             seen == CounterGet(counter, ent)
         IN  [templates |-> Append(prev.templates,
                                   IF seen = 1 THEN ent ELSE ent \o Str(seen)),
              entities_count |-> counter]

\* the inner while loop for one entity: count down from count to 2
RECURSIVE RenameEntity(_, _, _)
RenameEntity(template, entity, count) ==
    IF count > 1
    THEN RenameEntity(ReplaceFirst(template, Braced(entity), Braced(entity \o Str(count))),
                      entity, count - 1)
    ELSE template

\* the second loop over entities_count.items(), from entry k on
RECURSIVE RenameAll(_, _, _)
RenameAll(template, counter, k) ==
    IF k > Len(counter) THEN template
    ELSE RenameAll(RenameEntity(template, counter[k].ent, counter[k].count), counter, k + 1)

get_template_entities(template) ==
    LET matches == FindIter(template, 0)
        scan == ScanMatches(matches, Len(matches))
    IN  [template |-> RenameAll(template, scan.entities_count, 1),
         templates |-> scan.templates,
         entities_count |-> scan.entities_count]

(***************************************************************************)
(* Construction: the templates, the prepared fake-PII table and the flags  *)
(***************************************************************************)
PERSON == <<"P", "E", "R", "S", "O", "N">>

CITY == <<"C", "I", "T", "Y">>

GENDER == <<"G", "E", "N", "D", "E", "R">>

NAMESET == <<"N", "A", "M", "E", "S", "E", "T">>

COUNTRY == <<"C", "O", "U", "N", "T", "R", "Y">>

LOCATION == <<"L", "O", "C", "A", "T", "I", "O", "N">>

\* self.templates: templates in brace notation; entry 6 is a template left in
\* the raw bracket notation, which the constructor keeps as given when
\* if_prep_templates is set
Templates == <<
    <<"A", " ", "{", "C", "I", "T", "Y", "}">>,
    <<"I", " ", "s", "a", "w", " ", "a", " ", "{", "P", "E", "R", "S", "O", "N", "}">>,
    <<"{", "P", "E", "R", "S", "O", "N", "}", " ", "c", " ",
      "{", "P", "E", "R", "S", "O", "N", "2", "}">>,
    <<"{", "P", "E", "R", "S", "O", "N", "}", " ", "{", "P", "E", "R", "S", "O", "N", "}",
      " ", "{", "C", "I", "T", "Y", "}">>,
    <<"{", "C", "I", "T", "Y", "}", " ", "{", "C", "I", "T", "Y", "}", " ",
      "{", "C", "I", "T", "Y", "}">>,
    <<"H", "i">>,
    <<"[", "C", "I", "T", "Y", "]", " ", "x">>,
    <<"{", "Z", "I", "P", "}", " ", "x">>,
    <<"a", " ", "{", "Z", "I", "P", "}">>,
    <<"{", "Z", "I", "P", "}", " ", "{", "Z", "I", "P", "}">>,
    <<"{", "C", "I", "T", "Y", "}", " ", "a", " ", "{", "P", "E", "R", "S", "O", "N", "}">>,
    <<"{", "Z", "I", "P", "}", "{", "C", "I", "T", "Y", "}">> >>

\* get_template_entities of every template of self.templates
ParsedTemplates == [k \in 1..Len(Templates) |-> get_template_entities(Templates[k])]

\* one row of the table: column name -> value
Row(person, city, gender, nameset, country) ==
    (PERSON :> person) @@ (CITY :> city) @@ (GENDER :> gender)
        @@ (NAMESET :> nameset) @@ (COUNTRY :> country)

\* the table prep_fake_pii returns (self.fake_pii once prepared)
PreparedPii == <<
    Row(<<"A", "l">>, <<"R", "i", "o">>, <<"m">>, <<"u", "s">>, <<"P", "e", "r", "u">>),
    Row(<<" ", "b", "o">>, <<"E", "l", "y">>, <<"f">>, <<"u", "s">>, <<"O", "m", "a", "n">>),
    Row(<<"E", "v", "e">>, <<" ">>, <<"f">>, <<"u", "k">>, <<"F", "i", "j", "i">>) >>

\* the genders / namesets arguments; <<>> is None (or an empty list: both falsy)
GenderArgs == {<<>>, << <<"f">> >>, << <<"x">> >>}

NamesetArgs == {<<>>, << <<"u", "k">> >>}

\* largest count argument of sample_examples
MaxCount == 2

NoSample == [full_text |-> <<>>, spans |-> <<>>, masked |-> <<>>,
             metadata |-> [present |-> FALSE, Gender |-> <<>>, NameSet |-> <<>>,
                           Country |-> <<>>, Lowercase |-> FALSE, Template |-> 0]]

VARIABLES
    pc,                      \* position in sample_examples: idle, render, yielded, raised
    error,                   \* the exception that ended the generator
    fake_pii,                \* self.fake_pii; <<>> is None
    include_metadata,        \* self.include_metadata
    count, genders, namesets,\* the arguments of sample_examples
    produced,                \* samples yielded so far
    template_sentence_index,
    fake_pii_sample,         \* the selected row, with the duplicated entities
    original_sentence,       \* the template returned by get_template_entities
    replacements,
    entity_counts,
    values,
    to_lower,
    sentence, spans, i,      \* the locals of the render loop
    input_sample             \* the sample of the current iteration, once built

vars == <<pc, error, fake_pii, include_metadata, count, genders, namesets, produced,
          template_sentence_index, fake_pii_sample, original_sentence, replacements,
          entity_counts, values, to_lower, sentence, spans, i, input_sample>>

Init ==
    /\ pc = "idle"
    /\ error = "none"
    /\ fake_pii = <<>>
    /\ include_metadata \in BOOLEAN
    /\ count \in 1..MaxCount
    /\ genders \in GenderArgs
    /\ namesets \in NamesetArgs
    /\ produced = 0
    /\ template_sentence_index = 0
    /\ fake_pii_sample = <<>>
    /\ original_sentence = <<>>
    /\ replacements = <<>>
    /\ entity_counts = <<>>
    /\ values = <<>>
    /\ to_lower = FALSE
    /\ sentence = <<>>
    /\ spans = <<>>
    /\ i = 0
    /\ input_sample = NoSample

(***************************************************************************)
(* _filter_fake_pii, _add_duplicated_entities and the values dictionary    *)
(***************************************************************************)
\* subset[subset[column].isin(allowed)]
IsIn(table, column, allowed) ==
    SelectSeq(table, LAMBDA row : row[column] \in Range(allowed))

_filter_fake_pii(table, gs, ns) ==
    LET byGender == IF gs # <<>> THEN IsIn(table, GENDER, gs) ELSE table
    IN  IF ns # <<>> THEN IsIn(byGender, NAMESET, ns) ELSE byGender

\* the keys _add_duplicated_entities assigns, in order: for every entity of
\* the Counter from entry k on, count down from its count to 2
RECURSIVE DuplicateSlots(_, _)
DuplicateSlots(counter, k) ==
    IF k > Len(counter) THEN <<>>
    ELSE [d \in 1..(counter[k].count - 1) |->
            [entity |-> counter[k].ent, index |-> counter[k].count - d + 1]]
         \o DuplicateSlots(counter, k + 1)

\* record[key] = value on a row
SetItem(row, key, value) ==
    [x \in (DOMAIN row) \cup {key} |-> IF x = key THEN value ELSE row[x]]

\* _add_duplicated_entities after the first n assignments; draws[d] is the row
\* of the table that _get_additional_entity samples for assignment d
RECURSIVE _add_duplicated_entities(_, _, _, _, _)
_add_duplicated_entities(row, slots, table, draws, n) ==
    IF n = 0 THEN row
    ELSE SetItem(_add_duplicated_entities(row, slots, table, draws, n - 1),
                 slots[n].entity \o Str(slots[n].index),
                 table[draws[n]][slots[n].entity])

\* df.sample(1).iloc[0][entity] raises KeyError for a column the table lacks
DuplicateKeyError(slots, table) ==
    \E n \in 1..Len(slots) : slots[n].entity \notin DOMAIN table[1]

\* the loop that fills values: str(row[h]) when h is in the row, else ""
FillValues(row, names) ==
    [h \in Range(names) |-> IF h \in DOMAIN row THEN row[h] ELSE <<>>]

(***************************************************************************)
(* _create_input_sample: the render loop                                   *)
(***************************************************************************)
\* the loop condition together with the break on a failed search for "{"
LoopContinues(s, cursor) == cursor < Len(s) /\ Search(<<"{">>, s) # -1

\* sentence[:entity_start] + entity_value + sentence[entity_end + 1:]
Substitute(s, entity_start, entity_end, entity_value) ==
    SliceTo(s, entity_start) \o entity_value \o SliceFrom(s, entity_end + 1)

\* the test for an indefinite article in front of offset entity_start
ArticleBefore(s, entity_start) ==
    \/ /\ Lower(Slice(s, entity_start - 2, entity_start)) = <<"a", " ">>
       /\ entity_start = 2
    \/ Lower(Slice(s, entity_start - 3, entity_start)) = <<" ", "a", " ">>

\* entity_value[0].lower() in ["a", "e", "i", "o", "u"]
StartsWithVowel(entity_value) ==
    LowerChar(entity_value[1]) \in {"a", "e", "i", "o", "u"}

\* sentence[: entity_start - 1] + "n " + sentence[entity_start:]
InsertN(s, entity_start) ==
    SliceTo(s, entity_start - 1) \o <<"n", " ">> \o SliceFrom(s, entity_start)

\* mutation of ShiftedStart: the start is not moved past the inserted "n"
StartNotShifted(entity_start) == entity_start

\* entity_start = entity_start + 1 after the article was extended
ShiftedStart(entity_start) == entity_start + 1

\* mutation of SpanValue: the stored value keeps its case
SpanValueKeepsCase(entity_value, lower) == entity_value

\* the value stored in the span
SpanValue(entity_value, lower) == IF lower THEN Lower(entity_value) ELSE entity_value

\* mutation of NextCursor: the cursor stays at the start of the value
CursorAtStart(entity_start, entity_value_len) == entity_start

\* i = entity_start + entity_value_len
NextCursor(entity_start, entity_value_len) == entity_start + entity_value_len

Span(type, value, start, end) ==
    [entity_type |-> type, entity_value |-> value,
     start_position |-> start, end_position |-> end]

\* one iteration of the while loop on the locals st = [sentence, spans, i];
\* error names the exception the iteration raises, "none" when it completes
RenderIteration(st, vals, lower) ==
    LET entity_start == Search(<<"{">>, st.sentence)
        closing == Search(<<"}">>, SliceFrom(st.sentence, entity_start))
        entity_end == closing + entity_start
        name == Slice(st.sentence, entity_start + 1, entity_end)
        failed(kind) == [sentence |-> st.sentence, spans |-> st.spans,
                         i |-> st.i, error |-> kind]
    IN  IF closing = -1 THEN failed("AttributeError")
        ELSE IF name \notin DOMAIN vals THEN failed("KeyError")
        ELSE
          LET entity_value == Strip(vals[name])
              entity == RemoveDigits(name)
              entity_value_len == Len(entity_value)
              replaced == Substitute(st.sentence, entity_start, entity_end, entity_value)
          IN  IF ArticleBefore(replaced, entity_start) /\ entity_value = <<>>
              THEN failed("IndexError")
              ELSE
                LET fix == ArticleBefore(replaced, entity_start)
                               /\ StartsWithVowel(entity_value)
                    start == IF fix THEN ShiftedStart(entity_start) ELSE entity_start
                IN  [sentence |-> IF fix THEN InsertN(replaced, entity_start) ELSE replaced,
                     spans |-> Append(st.spans,
                                      Span(entity, SpanValue(entity_value, lower), start,
                                           start + entity_value_len)),
                     i |-> NextCursor(start, entity_value_len),
                     error |-> "none"]

\* mutation of FinalText: the sentence is never lower-cased
FinalTextKeepsCase(s, lower) == s

\* sentence.lower() after the loop when the sample is lower-cased
FinalText(s, lower) == IF lower THEN Lower(s) ELSE s

(***************************************************************************)
(* _consolidate_names                                                      *)
(***************************************************************************)
locations == <<LOCATION, CITY, <<"S", "T", "A", "T", "E">>, COUNTRY,
               <<"A", "D", "D", "R", "E", "S", "S">>, <<"S", "T", "R", "E", "E", "T">> >>

names == << <<"F", "I", "R", "S", "T", "_", "N", "A", "M", "E">>,
            <<"L", "A", "S", "T", "_", "N", "A", "M", "E">>, PERSON >>

\* the entity type a span has after the first loop
ConsolidatedType(type) ==
    IF type \in Range(names) THEN PERSON
    ELSE IF type \in Range(locations) THEN LOCATION
    ELSE type

ConsolidateSpans(ss) ==
    [k \in 1..Len(ss) |->
        Span(ConsolidatedType(ss[k].entity_type), ss[k].entity_value,
             ss[k].start_position, ss[k].end_position)]

\* masked = masked.replace("[" + member + "]", "[" + canonical + "]") for the
\* members from entry k on
RECURSIVE ReplaceTokens(_, _, _, _)
ReplaceTokens(masked, members, canonical, k) ==
    IF k > Len(members) THEN masked
    ELSE ReplaceTokens(ReplaceAll(masked, Bracketed(members[k]), Bracketed(canonical)),
                       members, canonical, k + 1)

ConsolidateMasked(masked) ==
    ReplaceTokens(ReplaceTokens(masked, locations, LOCATION, 1), names, PERSON, 1)

(***************************************************************************)
(* sample_examples                                                         *)
(***************************************************************************)
Raise(kind) ==
    /\ pc' = "raised"
    /\ error' = kind

\* lines 322-358 up to the entry of the render loop: prepare the table on
\* first use, pick a template and a row, resolve the placeholders
StartSample ==
    /\ pc \in {"idle", "yielded"}
    /\ produced < count
    /\ fake_pii' = IF fake_pii = <<>> THEN PreparedPii ELSE fake_pii
    /\ \E index \in 0..(Len(Templates) - 1) :
         LET subset == _filter_fake_pii(fake_pii', genders, namesets)
             parsed == ParsedTemplates[index + 1]
             slots == DuplicateSlots(parsed.entities_count, 1)
         IN  /\ template_sentence_index' = index
             /\ IF subset = <<>>
                THEN /\ Raise("ValueError")
                     /\ UNCHANGED <<fake_pii_sample, original_sentence, replacements,
                                    entity_counts, values, to_lower, sentence, spans, i>>
                ELSE /\ original_sentence' = parsed.template
                     /\ replacements' = parsed.templates
                     /\ entity_counts' = parsed.entities_count
                     /\ IF DuplicateKeyError(slots, fake_pii')
                        THEN /\ Raise("KeyError")
                             /\ \E row \in 1..Len(subset) : fake_pii_sample' = subset[row]
                             /\ UNCHANGED <<values, to_lower, sentence, spans, i>>
                        ELSE /\ \E row \in 1..Len(subset),
                                   draws \in [1..Len(slots) -> 1..Len(fake_pii')] :
                                  fake_pii_sample' = _add_duplicated_entities(
                                      subset[row], slots, fake_pii', draws, Len(slots))
                             /\ values' = FillValues(fake_pii_sample', replacements')
                             /\ to_lower' \in BOOLEAN
                             /\ sentence' = original_sentence'
                             /\ spans' = <<>>
                             /\ i' = 0
                             /\ pc' = "render"
                             /\ error' = "none"
    /\ input_sample' = NoSample
    /\ UNCHANGED <<include_metadata, count, genders, namesets, produced>>

\* one iteration of the while loop of _create_input_sample
RenderStep ==
    /\ pc = "render"
    /\ LoopContinues(sentence, i)
    /\ LET next == RenderIteration([sentence |-> sentence, spans |-> spans, i |-> i],
                                   values, to_lower)
       IN  /\ sentence' = next.sentence
           /\ spans' = next.spans
           /\ i' = next.i
           /\ IF next.error = "none"
              THEN UNCHANGED <<pc, error>>
              ELSE Raise(next.error)
    /\ UNCHANGED <<fake_pii, include_metadata, count, genders, namesets, produced,
                   template_sentence_index, fake_pii_sample, original_sentence,
                   replacements, entity_counts, values, to_lower, input_sample>>

\* the metadata dictionary of lines 360-368
Metadata(row, text, index) ==
    [present |-> TRUE, Gender |-> row[GENDER], NameSet |-> row[NAMESET],
     Country |-> row[COUNTRY], Lowercase |-> IsLowerStr(text), Template |-> index]

\* the loop has ended: lower-case the sentence, build the InputSample, attach
\* the metadata, consolidate the entity names and yield
YieldSample ==
    /\ pc = "render"
    /\ ~LoopContinues(sentence, i)
    /\ sentence' = FinalText(sentence, to_lower)
    /\ spans' = ConsolidateSpans(spans)
    /\ input_sample' =
         [full_text |-> sentence',
          spans |-> spans',
          masked |-> ConsolidateMasked(original_sentence),
          metadata |-> IF include_metadata
                       THEN Metadata(fake_pii_sample, sentence', template_sentence_index)
                       ELSE NoSample.metadata]
    /\ produced' = produced + 1
    /\ pc' = "yielded"
    /\ UNCHANGED <<error, fake_pii, include_metadata, count, genders, namesets,
                   template_sentence_index, fake_pii_sample, original_sentence,
                   replacements, entity_counts, values, to_lower, i>>

Next == StartSample \/ RenderStep \/ YieldSample

Spec == Init /\ [][Next]_vars

(***************************************************************************)
(* The while loop of _create_input_sample run to its end, as a function of *)
(* its inputs                                                              *)
(***************************************************************************)
RECURSIVE RenderLoop(_, _, _)
RenderLoop(st, vals, lower) ==
    IF LoopContinues(st.sentence, st.i)
    THEN LET next == RenderIteration(st, vals, lower)
         IN  IF next.error = "none"
             THEN RenderLoop([sentence |-> next.sentence, spans |-> next.spans,
                              i |-> next.i], vals, lower)
             ELSE next
    ELSE [sentence |-> st.sentence, spans |-> st.spans, i |-> st.i, error |-> "none"]

(***************************************************************************)
(* Vocabulary of the properties                                            *)
(***************************************************************************)
Yielded == pc = "yielded"

FullText == input_sample.full_text

SampleSpans == input_sample.spans

\* the placeholders of the template chosen from self.templates
SourcePlaceholders == FindIter(Templates[template_sentence_index + 1], 0)

\* the placeholders of the template the renderer receives
RenamedPlaceholders == FindIter(original_sentence, 0)

\* a placeholder name without its duplicate index
BaseType(name) == SelectSeq(name, LAMBDA c : c \notin DigitSet)

\* text folded as the sample's casing decision prescribes
Folded(text) == IF to_lower THEN [k \in 1..Len(text) |-> LowerChar(text[k])] ELSE text

SpanCovers(text, sp) == Slice(text, sp.start_position, sp.end_position) = sp.entity_value

\* the template text between placeholder k - 1 (or the start) and placeholder k
LiteralBefore(k) ==
    Slice(original_sentence,
          IF k = 1 THEN 0 ELSE RenamedPlaceholders[k - 1].end,
          RenamedPlaceholders[k].start)

\* the end of the span before span k (0 for the first span)
EndBefore(k) == IF k = 1 THEN 0 ELSE SampleSpans[k - 1].end_position

(***************************************************************************)
(* C1: in every sample that sample_examples yields, every span satisfies   *)
(* 0 <= start < end <= len(full_text) and full_text[start:end] equals its  *)
(* entity_value; no span is empty, also for a placeholder whose attribute  *)
(* is missing from the record or whose value strips to the empty string.   *)
(***************************************************************************)
SpanValidity ==
    Yielded =>
        \A k \in 1..Len(SampleSpans) :
            /\ 0 <= SampleSpans[k].start_position
            /\ SampleSpans[k].start_position < SampleSpans[k].end_position
            /\ SampleSpans[k].end_position <= Len(FullText)
            /\ SpanCovers(FullText, SampleSpans[k])

(***************************************************************************)
(* C2: get_template_entities renames repeated placeholders left to right:  *)
(* the identifier list it returns is the sequence of placeholder names     *)
(* read left to right from the template it returns, so the leftmost        *)
(* occurrence of a repeated type keeps the bare name and the j-th          *)
(* occurrence is NAMEj.                                                    *)
(***************************************************************************)
\* how often the name of source placeholder k occurs among the first k
OccurrenceIndex(k) ==
    Cardinality({m \in 1..k : SourcePlaceholders[m].ent = SourcePlaceholders[k].ent})

RenamedLeftToRight ==
    pc \in {"render", "yielded"} =>
        /\ Len(RenamedPlaceholders) = Len(SourcePlaceholders)
        /\ Len(replacements) = Len(SourcePlaceholders)
        /\ \A k \in 1..Len(SourcePlaceholders) :
              /\ RenamedPlaceholders[k].ent = replacements[k]
              /\ RenamedPlaceholders[k].ent =
                     IF OccurrenceIndex(k) = 1
                     THEN SourcePlaceholders[k].ent
                     ELSE SourcePlaceholders[k].ent \o Str(OccurrenceIndex(k))

(***************************************************************************)
(* C3: for the template "{PERSON} c {PERSON2}", which already carries an   *)
(* indexed duplicate placeholder, and a table that has the PERSON column,  *)
(* the sample has two PERSON spans and both values are non-empty.          *)
(***************************************************************************)
IndexedDuplicateResolved ==
    (Yielded /\ Templates[template_sentence_index + 1] =
                    Braced(PERSON) \o <<" ", "c", " ">> \o Braced(PERSON \o <<"2">>)) =>
        /\ Len(SampleSpans) = 2
        /\ \A k \in 1..Len(SampleSpans) :
              /\ SampleSpans[k].entity_type = PERSON
              /\ SampleSpans[k].entity_value # <<>>

(***************************************************************************)
(* C4: a placeholder whose attribute is absent from the resolved record is *)
(* not fatal, wherever it stands in the template: the empty string is      *)
(* substituted and sample_examples goes on to yield the sample; it raises  *)
(* nothing on account of the placeholder.                                  *)
(***************************************************************************)
MissingAttributeNotFatal ==
    (\E h \in Range(replacements) : h \notin DOMAIN fake_pii_sample) =>
        ~(pc = "raised" /\ error \in {"KeyError", "IndexError", "AttributeError"})

(***************************************************************************)
(* C8: after consolidation every span of a name type is a PERSON span and  *)
(* every span of a location type a LOCATION span, and the masked string of *)
(* the yielded sample has received the same remapping: no placeholder of a *)
(* group member is left in it under its own name.                          *)
(***************************************************************************)
GroupMembers == (Range(names) \cup Range(locations)) \ {PERSON, LOCATION}

ConsolidatedEverywhere ==
    Yielded =>
        /\ \A k \in 1..Len(SampleSpans) : SampleSpans[k].entity_type \notin GroupMembers
        /\ \A k \in 1..Len(FindIter(input_sample.masked, 0)) :
              BaseType(FindIter(input_sample.masked, 0)[k].ent)
                  \notin (Range(names) \cup Range(locations))
        /\ \A member \in GroupMembers :
              FindFrom(input_sample.masked, Bracketed(member), 0) = -1

(***************************************************************************)
(* C5: a yielded sample has one span per placeholder of the source         *)
(* template, in the placeholders' order and of their types; the loop       *)
(* leaves no placeholder unresolved; a template without placeholders       *)
(* yields no span and its own text.                                        *)
(***************************************************************************)
ParityOfSpans ==
    /\ Len(SampleSpans) = Len(SourcePlaceholders)
    /\ \A k \in 1..Len(SampleSpans) :
          SampleSpans[k].entity_type = ConsolidatedType(BaseType(SourcePlaceholders[k].ent))
    /\ FindFrom(FullText, <<"{">>, 0) = -1

ArticleInFront(k) ==
    LET p == RenamedPlaceholders[k].start
    IN  /\ p >= 2
        /\ LowerChar(original_sentence[p - 1]) = "a"
        /\ original_sentence[p] = " "
        /\ (p = 2 \/ original_sentence[p - 2] = " ")

BeginsWithVowel(value) ==
    value # <<>> /\ \E v \in {"a", "e", "i", "o", "u"} : LowerChar(value[1]) = v

ArticleCorrected ==
    Yielded =>
        \A k \in 1..Len(SampleSpans) :
            (k <= Len(RenamedPlaceholders) /\ ArticleInFront(k)
                /\ SampleSpans[k].entity_value # <<>>) =>
              LET sp == SampleSpans[k]
                  gap == LiteralBefore(k)
                  between == Slice(FullText, EndBefore(k), sp.start_position)
              IN  /\ SpanCovers(FullText, sp)
                  /\ IF BeginsWithVowel(sp.entity_value)
                     THEN /\ sp.start_position = EndBefore(k) + Len(gap) + 1
                          /\ between = Folded(SubSeq(gap, 1, Len(gap) - 1) \o <<"n", " ">>)
                     ELSE /\ sp.start_position = EndBefore(k) + Len(gap)
                          /\ between = Folded(gap)

ArticleExtended ==
    /\ Yielded
    /\ Len(SampleSpans) = 1
    /\ ArticleInFront(1)
    /\ BeginsWithVowel(SampleSpans[1].entity_value)
    /\ SampleSpans[1].start_position = 9
    /\ Slice(FullText, 6, 9) = <<"a", "n", " ">>

(***************************************************************************)
(* C9: when the sample is selected for lower-casing, the yielded text is   *)
(* lower-case, every span value is lower-case, and the span offsets are    *)
(* those the render loop computes without lower-casing, so that            *)
(* full_text[start:end] still equals the span value.                       *)
(***************************************************************************)
RenderedWithoutLowerCasing ==
    RenderLoop([sentence |-> original_sentence, spans |-> <<>>, i |-> 0], values, FALSE)

LowerCasingConsistent ==
    (Yielded /\ to_lower) =>
        /\ FullText = [k \in 1..Len(FullText) |-> LowerChar(FullText[k])]
        /\ Len(SampleSpans) = Len(RenderedWithoutLowerCasing.spans)
        /\ \A k \in 1..Len(SampleSpans) :
              LET sp == SampleSpans[k]
                  plain == RenderedWithoutLowerCasing.spans[k]
              IN  /\ \A c \in Range(sp.entity_value) : c \notin UpperSet
                  /\ sp.start_position = plain.start_position
                  /\ sp.end_position = plain.end_position
                  /\ SpanCovers(FullText, sp)

LowerCasedSampleYielded ==
    /\ Yielded
    /\ to_lower
    /\ Len(SampleSpans) >= 2
    /\ \E k \in 1..Len(SampleSpans) :
          RenderedWithoutLowerCasing.spans[k].entity_value # SampleSpans[k].entity_value
    /\ RenderedWithoutLowerCasing.sentence # FullText

(***************************************************************************)
(* C10: in the render loop the cursor is the end of the value inserted     *)
(* last and only moves forward, the next placeholder is found at or after  *)
(* the cursor, and an iteration edits the buffer only at or after the end  *)
(* of every recorded span, so every recorded span keeps covering its value *)
(* in the buffer.                                                          *)
(***************************************************************************)
CursorBehindSpans ==
    /\ \A k \in 1..Len(spans) :
          /\ 0 <= spans[k].start_position
          /\ spans[k].start_position <= spans[k].end_position
          /\ spans[k].end_position <= i
    /\ spans # <<>> => spans[Len(spans)].end_position = i
    /\ i <= Len(sentence)
    /\ LoopContinues(sentence, i) => FindFrom(sentence, <<"{">>, 0) >= i

RecordedSpansIntact ==
    pc = "render" =>
        /\ CursorBehindSpans
        /\ \A k \in 1..Len(spans) :
              Folded(Slice(sentence, spans[k].start_position, spans[k].end_position))
                  = spans[k].entity_value

EditsAfterCursor ==
    (pc = "render" /\ pc' = "render") =>
        /\ i' >= i
        /\ SliceTo(sentence', i) = SliceTo(sentence, i)
        /\ SubSeq(spans', 1, Len(spans)) = spans

=============================================================================
